---- MODULE Spec2Model ----
(***************************************************************************)
(* A model of podkernel: the install / list / delete / build / start       *)
(* commands of src/podkernel/cli/main.py and the kernelspec helpers of     *)
(* src/podkernel/kernelspec.py.                                            *)
(*                                                                         *)
(* Python strings are modelled as sequences of one-character strings, so   *)
(* that startswith, lstrip, rstrip and the per-character sanitising of     *)
(* make_kernel_id are computed as the code computes them.                  *)
(***************************************************************************)
EXTENDS Integers, Sequences, FiniteSets, TLC

VARIABLES
    argv,     \* the install command line under study: image_name, build, arguments
    store,    \* the kernelspec store: directory entry name -> entry
    prev,     \* the store as it was when the last command started
    images,   \* the container runtime's local images: image name -> image ID
    conn,     \* the connection file: JSON object, key -> value
    out       \* what the last command did: exit status, log, runtime calls, ...

vars == <<argv, store, prev, images, conn, out>>

(***************************************************************************)
(* Bounds of the model.                                                    *)
(***************************************************************************)
\* longest argument list drawn over the whole token vocabulary
MaxArgs == 2
\* longest argument list drawn over the separator vocabulary
MaxSepArgs == 4
\* longest argument list of the command lines run against a changing store
MaxStoreArgs == 3
\* longest argument list of the kernels that are started
MaxStartArgs == 3
\* most entries the generic installer's store starts with
MaxTaken == 2
\* longest name given to make_kernel_id and validate_kernel_id
MaxNameLen == 3

(***************************************************************************)
(* Strings.                                                                *)
(***************************************************************************)
Range(s) == { s[i] : i \in 1..Len(s) }

\* str.startswith(prefix)
StartsWith(s, prefix) ==
    /\ Len(prefix) <= Len(s)
    /\ \A i \in 1..Len(prefix) : s[i] = prefix[i]

\* str.endswith(suffix)
EndsWith(s, suffix) ==
    /\ Len(suffix) <= Len(s)
    /\ \A i \in 1..Len(suffix) : s[Len(s) - Len(suffix) + i] = suffix[i]

\* `sub in s` for strings
Contains(s, sub) ==
    \E k \in 0..(Len(s) - Len(sub)) : \A i \in 1..Len(sub) : s[k + i] = sub[i]

\* str.lstrip(chars): drop the leading characters that are in chars
RECURSIVE LStrip(_, _)
LStrip(s, chars) ==
    IF s # <<>> /\ Head(s) \in chars THEN LStrip(Tail(s), chars) ELSE s

\* str.rstrip(chars): drop the trailing characters that are in chars
RECURSIVE RStrip(_, _)
RStrip(s, chars) ==
    IF s # <<>> /\ s[Len(s)] \in chars
    THEN RStrip(SubSeq(s, 1, Len(s) - 1), chars)
    ELSE s

\* the concatenation of a sequence of strings
RECURSIVE Concat(_)
Concat(ss) == IF ss = <<>> THEN <<>> ELSE Head(ss) \o Concat(Tail(ss))

\* sep.join(ss)
RECURSIVE Join(_, _)
Join(ss, sep) ==
    IF ss = <<>> THEN <<>>
    ELSE IF Len(ss) = 1 THEN Head(ss)
    ELSE Head(ss) \o sep \o Join(Tail(ss), sep)

\* the elements of s that satisfy Keep, in order
SelectSeqIn(s, keep) == SelectSeq(s, LAMBDA x : x \in keep)

\* all sequences over S of length at most n
SeqsUpTo(S, n) == UNION { [1..k -> S] : k \in 0..n }

(***************************************************************************)
(* Constants of the program.                                               *)
(***************************************************************************)
NAMESPACE == "podkernel"
KERNELSPEC_FILENAME == "kernel.json"
CONTAINER_CONNECTION_SPEC_PATH == "/kernel-connection-spec.json"
CONTAINER_CONNECTION_SPEC_ENV_VARS ==
    <<"PODKERNEL_CONNECTION_FILE", "DOCKERNEL_CONNECTION_FILE">>
JUPYTER_CONNECTION_FILE_TEMPLATE == "{connection_file}"

Letters ==
    { "a", "b", "c", "d", "e", "f", "g", "h", "i", "j", "k", "l", "m",
      "n", "o", "p", "q", "r", "s", "t", "u", "v", "w", "x", "y", "z",
      "A", "B", "C", "D", "E", "F", "G", "H", "I", "J", "K", "L", "M",
      "N", "O", "P", "Q", "R", "S", "T", "U", "V", "W", "X", "Y", "Z" }
Digits == { "0", "1", "2", "3", "4", "5", "6", "7", "8", "9" }
KERNELSPEC_KERNELID_ALLOWED_CHARACTERS == Letters \cup Digits \cup { "_", ".", "-" }

(***************************************************************************)
(* The argument vocabulary.                                                *)
(***************************************************************************)
SEP == <<"-", "-">>
TokRm == <<"-", "-", "r", "m">>
TokRmfoo == <<"-", "-", "r", "m", "f", "o", "o">>
TokR == <<"-", "-", "r">>
TokD == <<"-", "d">>
TokDx == <<"-", "d", "x">>
TokDetach == <<"-", "-", "d", "e", "t", "a", "c", "h">>
TokI == <<"-", "i">>
TokInteractive == <<"-", "-", "i", "n", "t", "e", "r", "a", "c", "t", "i", "v", "e">>
TokT == <<"-", "t">>
TokTty == <<"-", "-", "t", "t", "y">>
TokA == <<"-", "a">>
TokAttach == <<"-", "-", "a", "t", "t", "a", "c", "h">>
TokEnv == <<"-", "-", "e", "n", "v", "=", "F", "O", "O">>
TokIidfile == <<"-", "-", "i", "i", "d", "f", "i", "l", "e">>
TokIidfileEq == <<"-", "-", "i", "i", "d", "f", "i", "l", "e", "=", "x">>
TokX == <<"x">>

\* every token the model passes to install
Tokens ==
    { SEP, TokRm, TokRmfoo, TokR, TokD, TokDx, TokDetach, TokI, TokInteractive,
      TokT, TokTty, TokA, TokAttach, TokEnv, TokIidfile, TokIidfileEq, TokX }

\* the tokens of the longer lists, which exercise the separators
SepTokens == { SEP, TokRm, TokIidfile, TokX }

ArgLists == SeqsUpTo(Tokens, MaxArgs) \cup SeqsUpTo(SepTokens, MaxSepArgs)

\* the argument lists of the command lines run against a changing store
StoreArgLists == SeqsUpTo(SepTokens, MaxStoreArgs)


\* click passes None for an option that was not given: modelled as <<>>,
\* a given value v as <<v>>
None == <<>>
Some(v) == <<v>>

DisplayNames == { None, Some(<<"A">>) }
Languages == { <<"p", "y">>, <<"r">> }

\* image references for --image, and build context directories for --build
\* (given as absolute, normalised paths; the home directory is /h)
ImageRefs == { <<"p", "y", ":", "3">> }
BuildPaths == { <<"/", "h", "/", "k">>, <<"/", "o", "/", "k">> }
HomeDir == <<"/", "h">>

(***************************************************************************)
(* kernelspec.py: kernel IDs.                                              *)
(***************************************************************************)
\* a sanitiser that keeps every character
SanitizeCharKeep(c) == c

\* c if c in KERNELSPEC_KERNELID_ALLOWED_CHARACTERS else "_"
SanitizeChar(c) == IF c \in KERNELSPEC_KERNELID_ALLOWED_CHARACTERS THEN c ELSE "_"

make_kernel_id(name) == [ i \in 1..Len(name) |-> SanitizeChar(name[i]) ]

\* TRUE when validate_kernel_id returns, FALSE when it raises ValueError
validate_kernel_id(kernel_id) ==
    Range(kernel_id) \subseteq KERNELSPEC_KERNELID_ALLOWED_CHARACTERS

(***************************************************************************)
(* cli_install: the build context path and the display name.               *)
(***************************************************************************)
\* Path(image_name).absolute().resolve(), stored relative to ~ when it lies
\* under the home directory
BuildPathOf(image_name) ==
    IF StartsWith(image_name, HomeDir \o <<"/">>)
    THEN <<"~", "/">> \o SubSeq(image_name, Len(HomeDir) + 2, Len(image_name))
    ELSE image_name

ImageNameOf(build, image_name) == IF build THEN BuildPathOf(image_name) ELSE image_name

\* Path(p).name: the last component of p
RECURSIVE PathName(_)
PathName(p) ==
    IF \E i \in 1..Len(p) : p[i] = "/"
    THEN PathName(Tail(p))
    ELSE p

\* display_name, or "<name> (<language>)" when none was given
DisplayNameOf(display_name, build, image_name, language) ==
    IF display_name = None
    THEN (IF build THEN PathName(image_name) ELSE image_name)
         \o <<" ", "(">> \o language \o <<")">>
    ELSE display_name[1]

(***************************************************************************)
(* cli_install: partitioning the arguments.                                *)
(***************************************************************************)
NoSections == [ build_args |-> <<>>, run_args |-> <<>>, cmd_args |-> <<>> ]

\* the sections in the order they are filled
ArgOrder(build) ==
    IF build THEN <<"build_args", "run_args", "cmd_args">>
    ELSE <<"run_args", "cmd_args">>

\* the for loop over the arguments: arg_order holds the sections still to
\* come, arg_name the section being filled, warnings the separators found
\* with no section left
RECURSIVE PartitionLoop(_, _, _, _, _)
PartitionLoop(arguments, arg_order, arg_name, sections, warnings) ==
    IF arguments = <<>>
    THEN [ sections |-> sections, warnings |-> warnings ]
    ELSE LET argument == Head(arguments) IN
         IF argument = SEP /\ Len(arg_order) > 0
         THEN PartitionLoop(Tail(arguments), Tail(arg_order), Head(arg_order),
                            sections, warnings)
         ELSE PartitionLoop(Tail(arguments), arg_order, arg_name,
                            [ sections EXCEPT ![arg_name] = Append(@, argument) ],
                            IF argument = SEP THEN warnings + 1 ELSE warnings)

\* a partitioning that starts at build_args whether or not --build was given
PartitionAlwaysBuild(arguments, build) ==
    PartitionLoop(arguments, Tail(ArgOrder(TRUE)), Head(ArgOrder(TRUE)), NoSections, 0)

Partition(arguments, build) ==
    PartitionLoop(arguments, Tail(ArgOrder(build)), Head(ArgOrder(build)),
                  NoSections, 0)

(***************************************************************************)
(* cli_install: validating the sections.                                   *)
(***************************************************************************)
disallowed_run_args ==
    { TokRm, TokD, TokDetach, TokI, TokInteractive, TokT, TokTty, TokA, TokAttach }

BuildArgsDisallowed(build_args) ==
    \E i \in 1..Len(build_args) : StartsWith(build_args[i], TokIidfile)

\* a check that only compares with the disallowed flags, without the prefix test
RunArgDisallowedExact(value) == value \in disallowed_run_args

RunArgDisallowed(value) ==
    StartsWith(value, TokRm) \/ value \in disallowed_run_args

\* the logger.error calls of the validation, in order: one for build_args
\* when any of its tokens starts with --iidfile, then one for each
\* disallowed token of run_args
RECURSIVE RunArgErrors(_)
RunArgErrors(run_args) ==
    IF run_args = <<>> THEN <<>>
    ELSE (IF RunArgDisallowed(Head(run_args))
          THEN << [ section |-> "run_args", value |-> Head(run_args) ] >>
          ELSE <<>>)
         \o RunArgErrors(Tail(run_args))

\* a validation that stops at the first violation
ValidationErrorsFailFast(sections) ==
    IF BuildArgsDisallowed(sections.build_args)
    THEN << [ section |-> "build_args", value |-> TokIidfile ] >>
    ELSE IF RunArgErrors(sections.run_args) = <<>> THEN <<>>
    ELSE << Head(RunArgErrors(sections.run_args)) >>

ValidationErrors(sections) ==
    (IF BuildArgsDisallowed(sections.build_args)
     THEN << [ section |-> "build_args", value |-> TokIidfile ] >>
     ELSE <<>>)
    \o RunArgErrors(sections.run_args)


(***************************************************************************)
(* cli_install: the metadata and the kernel ID derived from it.            *)
(***************************************************************************)
PodKernelMetadata(image_name, build, sections) ==
    [ image_name |-> image_name,
      build      |-> build,
      build_args |-> sections.build_args,
      run_args   |-> sections.run_args,
      cmd_args   |-> sections.cmd_args ]

\* a string value as it stands in the JSON text: one symbol
JsonString(s) == <<"\"">> \o s \o <<"\"">>

\* a list of strings as it stands in the JSON text
JsonStringList(l) ==
    << <<"[">> >> \o Join([ i \in 1..Len(l) |-> << JsonString(l[i]) >> ], << <<",">> >>)
    \o << <<"]">> >>

\* kernel_meta.model_dump_json(indent=False): the fields in declaration
\* order, as a sequence of symbols (a key with its colon, a literal, a
\* string value or a punctuation mark is one symbol)
model_dump_json(kernel_meta) ==
    << <<"{">>, <<"image_name:">>, JsonString(kernel_meta.image_name),
       <<",">>, <<"build:">>, IF kernel_meta.build THEN <<"true">> ELSE <<"false">>,
       <<",">>, <<"build_args:">> >> \o JsonStringList(kernel_meta.build_args)
    \o << <<",">>, <<"run_args:">> >> \o JsonStringList(kernel_meta.run_args)
    \o << <<",">>, <<"cmd_args:">> >> \o JsonStringList(kernel_meta.cmd_args)
    \o << <<"}">> >>

\* the symbols a serialisation is made of
Symbols ==
    << <<"{">>, <<"}">>, <<"[">>, <<"]">>, <<",">>, <<"image_name:">>, <<"build:">>,
       <<"build_args:">>, <<"run_args:">>, <<"cmd_args:">>, <<"true">>, <<"false">>,
       JsonString(<<"p", "y", ":", "3">>), JsonString(<<"~", "/", "k">>),
       JsonString(<<"/", "o", "/", "k">>),
       JsonString(SEP), JsonString(TokRm), JsonString(TokRmfoo), JsonString(TokR),
       JsonString(TokD), JsonString(TokDx), JsonString(TokDetach), JsonString(TokI),
       JsonString(TokInteractive), JsonString(TokT), JsonString(TokTty),
       JsonString(TokA), JsonString(TokAttach), JsonString(TokEnv),
       JsonString(TokIidfile), JsonString(TokIidfileEq), JsonString(TokX) >>

\* the place of each symbol in Symbols
SymbolIndexOf == [ sym \in Range(Symbols) |-> CHOOSE i \in 1..Len(Symbols) : Symbols[i] = sym ]
SymbolIndex(sym) == SymbolIndexOf[sym]

Base64UrlAlphabet ==
    << "A", "B", "C", "D", "E", "F", "G", "H", "I", "J", "K", "L", "M",
       "N", "O", "P", "Q", "R", "S", "T", "U", "V", "W", "X", "Y", "Z",
       "a", "b", "c", "d", "e", "f", "g", "h", "i", "j", "k", "l", "m",
       "n", "o", "p", "q", "r", "s", "t", "u", "v", "w", "x", "y", "z",
       "0", "1", "2", "3", "4", "5", "6", "7", "8", "9", "-", "_" >>

\* hashlib.sha256(...).digest(), as a sequence of 6-bit groups.  SHA-256 is
\* modelled by a collision-free stand-in: the digest of a message is the
\* sequence of the indices of its symbols, so different messages have
\* different digests, as the code relies on.
sha256_digest(message) == [ i \in 1..Len(message) |-> SymbolIndex(message[i]) - 1 ]

\* base64.urlsafe_b64encode(...).decode(): one character of the URL-safe
\* alphabet for each 6-bit group, then the = padding of a 32-byte digest
urlsafe_b64encode(digest) ==
    [ i \in 1..Len(digest) |-> Base64UrlAlphabet[digest[i] + 1] ] \o <<"=">>

Hashtag(kernel_meta) == urlsafe_b64encode(sha256_digest(model_dump_json(kernel_meta)))

\* make_kernel_id(f"{image_name.lstrip('~/')}-{hashtag.rstrip('=')}")
KernelIdOf(kernel_meta) ==
    make_kernel_id(LStrip(kernel_meta.image_name, {"~", "/"}) \o <<"-">>
                   \o RStrip(Hashtag(kernel_meta), {"="}))

JupyterKernelSpec(kernel_id, display_name, language, kernel_meta) ==
    [ argv           |-> <<NAMESPACE, "start", kernel_id, JUPYTER_CONNECTION_FILE_TEMPLATE>>,
      display_name   |-> display_name,
      language       |-> language,
      interrupt_mode |-> "message",
      metadata       |-> (NAMESPACE :> kernel_meta) ]

(***************************************************************************)
(* The kernelspec store: a directory whose entries are regular files or    *)
(* directories; a directory holds a kernel.json (spec = <<content>>) or    *)
(* none (spec = <<>>).                                                     *)
(***************************************************************************)
FileEntry == [ kind |-> "file", spec |-> <<>> ]
DirEntry(spec) == [ kind |-> "dir", spec |-> spec ]

\* a kernelspec some other tool installed: no podkernel key in its metadata
ForeignSpec ==
    [ argv           |-> <<"python", "-m", "ipykernel_launcher", "-f", "{connection_file}">>,
      display_name   |-> <<"F">>,
      language       |-> <<"p", "y">>,
      interrupt_mode |-> "signal",
      metadata       |-> ("debugger" :> TRUE) ]

\* Path.exists()
Exists(st, name) == name \in DOMAIN st
\* Path.is_dir()
IsDir(st, name) == name \in DOMAIN st /\ st[name].kind = "dir"
\* (dir / KERNELSPEC_FILENAME).exists()
SpecFileExists(st, name) == IsDir(st, name) /\ st[name].spec # <<>>

\* the entry `name` set to e
WithEntry(st, name, e) ==
    [ n \in DOMAIN st \cup {name} |-> IF n = name THEN e ELSE st[n] ]
\* shutil.rmtree(dir)
WithoutEntry(st, name) == [ n \in DOMAIN st \ {name} |-> st[n] ]


(***************************************************************************)
(* What a command leaves behind for the properties to read.                *)
(***************************************************************************)
NoOut ==
    [ op        |-> "none",      \* the command that ran last
      exit      |-> 0,           \* its exit status
      failure   |-> "",          \* the exception that ended it, if any
      errors    |-> <<>>,        \* its logger.error calls, in order
      warnings  |-> 0,           \* its logger.warn calls
      sections  |-> NoSections,  \* install: the partitioned arguments
      kernel_id |-> <<>>,        \* the kernel ID it worked on
      display_name |-> <<>>,     \* install: the display name it was to give
      existing  |-> <<>>,        \* install: the existing spec it reported
      fs        |-> <<>>,        \* its writes to the store, in order
      ret       |-> <<>>,        \* install_kernelspec: the ID it returned
      idx       |-> 0,           \* install_kernelspec: the suffixes it tried
      listing   |-> {},          \* list: the lines it printed
      pull      |-> FALSE,       \* build, start: the pull flag given to _common_build
      calls     |-> <<>>,        \* build, start: the runtime invocations, in order
      image_id  |-> <<>>,        \* build, start: what _common_build returned
      ports     |-> {},          \* start: the ports found in the connection file
      conn_before |-> <<>> ]     \* start: the connection file as it was found

(***************************************************************************)
(* cli_install.                                                            *)
(***************************************************************************)
\* an existence check that looks for the spec file under another name
KernelSpecfileExistsWrongName(st, kernel_id) == FALSE

\* kernel_specfile.exists(), for kernel_specfile = store / kernel_id / kernel.json
KernelSpecfileExists(st, kernel_id) == SpecFileExists(st, kernel_id)

\* the command from its inputs and the store st: the store it leaves and
\* what it reports
Install(st, display_name, language, build, image_arg, arguments) ==
    LET image_name  == ImageNameOf(build, image_arg)
        shown       == DisplayNameOf(display_name, build, image_name, language)
        parted      == Partition(arguments, build)
        sections    == parted.sections
        errors      == ValidationErrors(sections)
        kernel_meta == PodKernelMetadata(image_name, build, sections)
        kernel_id   == KernelIdOf(kernel_meta)
        kernelspec  == JupyterKernelSpec(kernel_id, shown, language, kernel_meta)
        base        == [ NoOut EXCEPT !.op = "install", !.sections = sections,
                                      !.warnings = parted.warnings,
                                      !.display_name = shown,
                                      !.errors = errors ]
    IN  IF errors # <<>>
        THEN \* click.ClickException after every error was logged
             [ store |-> st,
               out   |-> [ base EXCEPT !.exit = 1, !.failure = "ClickException" ] ]
        ELSE IF ~ validate_kernel_id(kernel_id)
        THEN [ store |-> st,
               out   |-> [ base EXCEPT !.exit = 1, !.failure = "ValueError",
                                       !.kernel_id = kernel_id ] ]
        ELSE IF KernelSpecfileExists(st, kernel_id)
        THEN \* identical kernel already exists: sys.exit(0)
             [ store |-> st,
               out   |-> [ base EXCEPT !.kernel_id = kernel_id,
                               !.existing = << st[kernel_id].spec[1].display_name,
                                               st[kernel_id].spec[1].language >> ] ]
        ELSE IF Exists(st, kernel_id) /\ ~ IsDir(st, kernel_id)
        THEN \* mkdir(parents=True, exist_ok=True) on a regular file
             [ store |-> st,
               out   |-> [ base EXCEPT !.exit = 1, !.failure = "FileExistsError",
                                       !.kernel_id = kernel_id ] ]
        ELSE [ store |-> WithEntry(st, kernel_id, DirEntry(<<kernelspec>>)),
               out   |-> [ base EXCEPT !.kernel_id = kernel_id,
                               !.fs = (IF Exists(st, kernel_id) THEN <<>>
                                       ELSE << <<"mkdir", kernel_id>> >>)
                                      \o << <<"write_text", kernel_id>> >> ] ]

cli_install ==
    \E display_name \in DisplayNames, language \in Languages :
        LET r == Install(store, display_name, language, argv.build,
                         argv.image_name, argv.arguments)
        IN  /\ store' = r.store
            /\ prev' = store
            /\ out' = [ r.out EXCEPT !.op = "install" ]
            /\ UNCHANGED <<argv, images, conn>>

(***************************************************************************)
(* _common_list, cli_list and cli_delete.                                  *)
(***************************************************************************)
\* a listing that does not look for the podkernel key
ListedNamesAnyKernel(st) ==
    { n \in DOMAIN st : IsDir(st, n) /\ SpecFileExists(st, n) }

\* the names _common_list returns: directories with a kernel.json whose
\* metadata has the podkernel key
ListedNames(st) ==
    { n \in DOMAIN st : /\ IsDir(st, n)
                        /\ SpecFileExists(st, n)
                        /\ NAMESPACE \in DOMAIN st[n].spec[1].metadata }

_common_list(st) == [ n \in ListedNames(st) |-> st[n].spec[1] ]

cli_list ==
    /\ out' = [ NoOut EXCEPT !.op = "list",
                  !.listing = { <<n, _common_list(store)[n].display_name>> :
                                n \in DOMAIN _common_list(store) } ]
    /\ prev' = store
    /\ UNCHANGED <<argv, store, images, conn>>

Delete(st, doit, kernel_id) ==
    LET base == [ NoOut EXCEPT !.op = IF doit THEN "delete" ELSE "dryrun",
                               !.kernel_id = kernel_id ]
        fail == [ store |-> st,
                  out   |-> [ base EXCEPT !.exit = 1, !.failure = "ClickException" ] ]
    IN  IF kernel_id \notin DOMAIN _common_list(st) THEN fail
        ELSE IF ~ IsDir(st, kernel_id) THEN fail
        ELSE IF ~ SpecFileExists(st, kernel_id) THEN fail
        ELSE IF doit
        THEN [ store |-> WithoutEntry(st, kernel_id),
               out   |-> [ base EXCEPT !.fs = << <<"rmtree", kernel_id>> >> ] ]
        ELSE [ store |-> st, out |-> base ]

\* the names a delete is tried on: every entry of the store, the kernel the
\* command line under study installs, and a name that is nowhere
MissingName == <<"n", "o">>
ArgvKernelId ==
    KernelIdOf(PodKernelMetadata(ImageNameOf(argv.build, argv.image_name), argv.build,
                                 Partition(argv.arguments, argv.build).sections))
DeleteNames == DOMAIN store \cup { ArgvKernelId, MissingName }

cli_delete ==
    \E kernel_id \in DeleteNames, doit \in BOOLEAN :
        LET r == Delete(store, doit, kernel_id)
        IN  /\ store' = r.store
            /\ prev' = store
            /\ out' = r.out
            /\ UNCHANGED <<argv, images, conn>>

(***************************************************************************)
(* The install / list / delete commands on one store.                      *)
(***************************************************************************)
ForeignName == <<"i", "r">>

Argvs(lists) ==
    { [ build |-> b, image_name |-> i, arguments |-> a ] :
        b \in BOOLEAN, i \in ImageRefs \cup BuildPaths, a \in lists }

\* --build comes with a build context directory, --image with an image reference
CommandLines(lists) == { a \in Argvs(lists) : a.build <=> a.image_name \in BuildPaths }

\* the stores a command line may find: other tools' kernelspecs, and at the
\* place of its own kernel nothing, a directory without kernel.json, or a
\* regular file
InitStores(id) ==
    { (ForeignName :> DirEntry(<<ForeignSpec>>)),
      (ForeignName :> DirEntry(<<ForeignSpec>>)) @@ (id :> DirEntry(<<>>)),
      (ForeignName :> DirEntry(<<ForeignSpec>>)) @@ (id :> FileEntry) }

NoImages == <<>>
NoConn == <<>>

Init ==
    /\ argv \in CommandLines(StoreArgLists)
    /\ store \in InitStores(ArgvKernelId)
    /\ prev = store
    /\ images = NoImages
    /\ conn = NoConn
    /\ out = NoOut

Next == cli_install \/ cli_list \/ cli_delete

Spec == Init /\ [][Next]_vars

(***************************************************************************)
(* The install command on every command line of the vocabulary.            *)
(***************************************************************************)
InitArgs ==
    /\ argv \in CommandLines(ArgLists)
    /\ store = (ForeignName :> DirEntry(<<ForeignSpec>>))
    /\ prev = store
    /\ images = NoImages
    /\ conn = NoConn
    /\ out = NoOut

NextArgs == cli_install

SpecArgs == InitArgs /\ [][NextArgs]_vars


(***************************************************************************)
(* kernelspec.py: install_kernelspec, the generic installer.               *)
(***************************************************************************)
DigitChars == <<"0", "1", "2", "3", "4", "5", "6", "7", "8", "9">>

\* str(n) for a natural number n
RECURSIVE Decimal(_)
Decimal(n) ==
    IF n < 10 THEN << DigitChars[n + 1] >>
    ELSE Decimal(n \div 10) \o << DigitChars[(n % 10) + 1] >>

\* a search that tries the first suffixed name without looking whether it exists
FindFreeIdUnchecked(st, kernel_id, real_kernel_id, idx) ==
    IF Exists(st, real_kernel_id)
    THEN [ real_kernel_id |-> kernel_id \o <<"_">> \o Decimal(idx), idx |-> idx + 1 ]
    ELSE [ real_kernel_id |-> real_kernel_id, idx |-> idx ]

\* the while loop: the first of kernel_id, kernel_id_0, kernel_id_1, ... at
\* which nothing exists, and the idx the loop ends with
RECURSIVE FindFreeId(_, _, _, _)
FindFreeId(st, kernel_id, real_kernel_id, idx) ==
    IF Exists(st, real_kernel_id)
    THEN FindFreeId(st, kernel_id, kernel_id \o <<"_">> \o Decimal(idx), idx + 1)
    ELSE [ real_kernel_id |-> real_kernel_id, idx |-> idx ]

\* kernelspec.model_dump_json(indent=True): every field, the unset env as null
DumpWithUnset(kernelspec) == kernelspec @@ ("env" :> "null")

InstallKernelspec(st, kernelspec, kernel_id) ==
    LET base  == [ NoOut EXCEPT !.op = "install_kernelspec", !.kernel_id = kernel_id ]
        found == FindFreeId(st, kernel_id, kernel_id, 0)
        real  == found.real_kernel_id
    IN  IF ~ validate_kernel_id(kernel_id)
        THEN [ store |-> st,
               out   |-> [ base EXCEPT !.exit = 1, !.failure = "ValueError" ] ]
        ELSE [ store |-> WithEntry(st, real, DirEntry(<< DumpWithUnset(kernelspec) >>)),
               out   |-> [ base EXCEPT !.ret = real, !.idx = found.idx,
                               !.fs = << <<"mkdir", real>>, <<"write_text", real>> >> ] ]

\* the IDs and kernelspecs the generic installer is called with
BaseId == <<"k">>
InvalidId == <<"m", " ", "k">>
GenericIds == { BaseId, BaseId \o <<"_", "0">>, InvalidId }
GenericSpecs ==
    { ForeignSpec,
      JupyterKernelSpec(BaseId, <<"A">>, <<"p", "y">>,
                        PodKernelMetadata(<<"p", "y", ":", "3">>, FALSE, NoSections)) }

install_kernelspec ==
    /\ Cardinality(DOMAIN store) <= MaxTaken
    /\ \E kernelspec \in GenericSpecs, kernel_id \in GenericIds :
        LET r == InstallKernelspec(store, kernelspec, kernel_id)
        IN  /\ store' = r.store
            /\ prev' = store
            /\ out' = r.out
            /\ UNCHANGED <<argv, images, conn>>

(***************************************************************************)
(* The generic installer on stores that already hold some of the names     *)
(* it tries.                                                               *)
(***************************************************************************)
\* k, k_0, k_1, ... and another tool's kernelspec
TakenNames ==
    { BaseId, ForeignName } \cup { BaseId \o <<"_">> \o Decimal(i) : i \in 0..(MaxTaken - 1) }

TakenEntries == { FileEntry, DirEntry(<<>>), DirEntry(<<ForeignSpec>>) }

TakenStores ==
    UNION { [ names -> TakenEntries ] :
            names \in { x \in SUBSET TakenNames : Cardinality(x) <= MaxTaken } }

NoArgv == [ build |-> FALSE, image_name |-> <<"p", "y", ":", "3">>, arguments |-> <<>> ]

InitKernelspec ==
    /\ argv = NoArgv
    /\ store \in TakenStores
    /\ prev = store
    /\ images = NoImages
    /\ conn = NoConn
    /\ out = NoOut

NextKernelspec == install_kernelspec \/ cli_list \/ cli_delete

SpecKernelspec == InitKernelspec /\ [][NextKernelspec]_vars

(***************************************************************************)
(* The container runtime, seen through its command line.  images maps an   *)
(* image name to the JSON array `inspect` prints for it; an argument of a  *)
(* command line is a sequence of strings, to be read concatenated.         *)
(***************************************************************************)
ImageA == [ Id |-> <<"sha256:a">> ]
ImageB == [ Id |-> <<"sha256:b">> ]
ImagePulled == [ Id |-> <<"sha256:p">> ]
ImageBuilt == <<"sha256:built">>

\* what `inspect <name>` may print: nothing found, one object, two objects
InspectArrays == { <<>>, <<ImageA>>, <<ImageB, ImageA>> }

\* the output of `<exe> inspect <image_name>`, parsed by json.loads
InspectOutput(imgs, image_name) ==
    IF image_name \in DOMAIN imgs THEN imgs[image_name] ELSE <<>>

\* the local images after `<exe> pull <image_name>` that succeeded or failed
AfterPull(imgs, image_name, pulled) ==
    IF pulled
    THEN [ n \in DOMAIN imgs \cup { image_name } |->
             IF n = image_name THEN <<ImagePulled>> ELSE imgs[n] ]
    ELSE imgs

Call(cmd, args, result) == [ cmd |-> cmd, args |-> args, result |-> result ]

\* an inspection that takes the last object of the array
InspectImageLast(imgs, image_name) ==
    LET inspect_obj == InspectOutput(imgs, image_name)
    IN  IF Len(inspect_obj) = 0 THEN None ELSE Some(inspect_obj[Len(inspect_obj)].Id)

\* _inspect_image: None for an empty array, else the Id of its first object
InspectImage(imgs, image_name) ==
    LET inspect_obj == InspectOutput(imgs, image_name)
    IN  IF Len(inspect_obj) = 0 THEN None ELSE Some(inspect_obj[1].Id)

\* Path(p).expanduser()
ExpandUser(path) ==
    IF path = <<"~">> \/ StartsWith(path, <<"~", "/">>)
    THEN HomeDir \o Tail(path)
    ELSE path

\* the temporary id-file of a build: podkernel.<kernel_id>.<random>.iid
IidFileName(kernel_id) == <<NAMESPACE, ".">> \o kernel_id \o <<".", "tmp", ".iid">>

\* _common_build on the local images imgs.  built and pulled are what the
\* runtime does when asked: the build succeeds or fails, the pull succeeds or
\* fails.  Gives the images afterwards, the runtime calls made, the image ID
\* returned (None when there is none) and the exception raised, if any.
CommonBuild(imgs, kernel_id, kernel_meta, pull, built, pulled) ==
    LET name == kernel_meta.image_name IN
    IF kernel_meta.build
    THEN LET build_cmd == kernel_meta.build_args
                          \o << TokIidfile, IidFileName(kernel_id) >>
                          \o << ExpandUser(name) >>
         IN  IF built
             THEN [ images |-> imgs, image_id |-> Some(ImageBuilt), failure |-> "",
                    calls |-> << Call("build", build_cmd, <<ImageBuilt>>) >> ]
             ELSE \* subprocess.check_call raises
                  [ images |-> imgs, image_id |-> None, failure |-> "CalledProcessError",
                    calls |-> << Call("build", build_cmd, <<>>) >> ]
    ELSE LET first == InspectImage(imgs, name)
             after == AfterPull(imgs, name, pulled)
             inspect1 == Call("inspect", <<name>>, InspectOutput(imgs, name))
         IN  IF first = None /\ pull
             THEN [ images |-> after, image_id |-> InspectImage(after, name),
                    failure |-> "",
                    calls |-> << inspect1,
                                 Call("pull", <<name>>, <<pulled>>),
                                 Call("inspect", <<name>>, InspectOutput(after, name)) >> ]
             ELSE [ images |-> imgs, image_id |-> first, failure |-> "",
                    calls |-> << inspect1 >> ]

\* _common_startup: the metadata of the kernel (as Some), or the exception
\* that reading or parsing its kernel.json raises
CommonStartup(st, kernel_id) ==
    IF ~ SpecFileExists(st, kernel_id)
    THEN [ failure |-> "FileNotFoundError", kernel_meta |-> None ]
    ELSE IF NAMESPACE \notin DOMAIN st[kernel_id].spec[1].metadata
    THEN [ failure |-> "KeyError", kernel_meta |-> None ]
    ELSE [ failure |-> "", kernel_meta |-> Some(st[kernel_id].spec[1].metadata[NAMESPACE]) ]

\* the pull argument that cli_build and cli_start leave at its default
BuildPull == FALSE
StartPull == FALSE

(***************************************************************************)
(* The connection file: JSON text, modelled by its layout (as Jupyter wrote *)
(* it, or as json.dumps(indent=True) writes it) and its items, <<key,       *)
(* value>> in the order they are written.                                  *)
(***************************************************************************)
KeyIp == <<"i", "p">>
KeyShellPort == <<"s", "h", "e", "l", "l", "_", "p", "o", "r", "t">>
KeyIopubPort == <<"i", "o", "p", "u", "b", "_", "p", "o", "r", "t">>
KeyTransport == <<"t", "r", "a", "n", "s", "p", "o", "r", "t">>
KeyHbPortOld == <<"h", "b", "_", "p", "o", "r", "t", "_", "o", "l", "d">>
AllInterfaces == <<"0.0.0.0">>
ConnectionFile == "/run/kernel-1.json"

\* the connection files start is given
ConnFiles ==
    { [ layout |-> "jupyter",
        items  |-> ip \o << <<KeyShellPort, 5>> >> \o iopub
                   \o << <<KeyTransport, <<"tcp">>>> >> \o old ] :
        ip     \in { <<>>, << <<KeyIp, <<"127.0.0.1">>>> >> },
        iopub  \in { <<>>, << <<KeyIopubPort, 5>> >>, << <<KeyIopubPort, 6>> >> },
        old    \in { <<>>, << <<KeyHbPortOld, 7>> >> } }

\* the elements of a finite set of numbers in ascending order: sorted(S)
RECURSIVE Sorted(_)
Sorted(S) ==
    IF S = {} THEN <<>>
    ELSE LET m == CHOOSE x \in S : \A y \in S : x <= y
         IN  <<m>> \o Sorted(S \ {m})

\* cli_start on the connection file: json.loads, ip forced, the ports
\* collected, json.dumps(indent=True) written back
Rewrite(file) ==
    LET items == file.items
        connection_obj ==
            IF \E i \in 1..Len(items) : items[i][1] = KeyIp
            THEN [ i \in 1..Len(items) |->
                     IF items[i][1] = KeyIp THEN <<KeyIp, AllInterfaces>> ELSE items[i] ]
            ELSE Append(items, <<KeyIp, AllInterfaces>>)
    IN  [ file  |-> [ layout |-> "indent", items |-> connection_obj ],
          ports |-> { connection_obj[i][2] :
                      i \in { j \in 1..Len(connection_obj) :
                              Contains(connection_obj[j][1], <<"_", "p", "o", "r", "t">>) } } ]

(***************************************************************************)
(* cli_build and cli_start.                                                *)
(***************************************************************************)
RECURSIVE PortArgs(_)
PortArgs(ports) ==
    IF ports = <<>> THEN <<>>
    ELSE << <<"-", "p">>,
            <<"127.0.0.1", ":">> \o Decimal(Head(ports)) \o <<":">> \o Decimal(Head(ports)) >>
         \o PortArgs(Tail(ports))

ControlArgs(connection_ports) ==
    << TokRm, <<"-", "v">>,
       <<ConnectionFile, ":", CONTAINER_CONNECTION_SPEC_PATH, ":", "ro">> >>
    \o << <<"-", "e">>,
          <<CONTAINER_CONNECTION_SPEC_ENV_VARS[1], "=", CONTAINER_CONNECTION_SPEC_PATH>>,
          <<"-", "e">>,
          <<CONTAINER_CONNECTION_SPEC_ENV_VARS[2], "=", CONTAINER_CONNECTION_SPEC_PATH>> >>
    \o PortArgs(Sorted(connection_ports))

\* a command line with the image ID after the command arguments
RunCmdImageLast(kernel_meta, connection_ports, image_id) ==
    kernel_meta.run_args \o ControlArgs(connection_ports) \o kernel_meta.cmd_args
    \o <<image_id>>

\* the arguments after `<exe> run`
RunCmd(kernel_meta, connection_ports, image_id) ==
    kernel_meta.run_args \o ControlArgs(connection_ports) \o <<image_id>>
    \o kernel_meta.cmd_args

Build(st, imgs, kernel_id, built, pulled) ==
    LET base    == [ NoOut EXCEPT !.op = "build", !.kernel_id = kernel_id,
                                  !.pull = BuildPull ]
        startup == CommonStartup(st, kernel_id)
        cb      == CommonBuild(imgs, kernel_id, startup.kernel_meta[1], BuildPull,
                               built, pulled)
    IN  IF startup.failure # ""
        THEN [ images |-> imgs,
               out    |-> [ base EXCEPT !.exit = 1, !.failure = startup.failure ] ]
        ELSE IF cb.failure # ""
        THEN [ images |-> cb.images,
               out    |-> [ base EXCEPT !.exit = 1, !.failure = cb.failure,
                                        !.calls = cb.calls ] ]
        ELSE IF cb.image_id = None
        THEN [ images |-> cb.images,
               out    |-> [ base EXCEPT !.exit = 1, !.failure = "ClickException",
                                        !.calls = cb.calls ] ]
        ELSE [ images |-> cb.images,
               out    |-> [ base EXCEPT !.calls = cb.calls, !.image_id = cb.image_id ] ]

\* a start that rewrites the connection file before it resolves the image
StartRewriteFirst(st, imgs, file, kernel_id, built, pulled, retcode) ==
    LET base    == [ NoOut EXCEPT !.op = "start", !.kernel_id = kernel_id,
                                  !.pull = StartPull, !.conn_before = file ]
        startup == CommonStartup(st, kernel_id)
        meta    == startup.kernel_meta[1]
        cb      == CommonBuild(imgs, kernel_id, meta, StartPull, built, pulled)
        rw      == Rewrite(file)
    IN  IF startup.failure # ""
        THEN [ images |-> imgs, conn |-> file,
               out    |-> [ base EXCEPT !.exit = 1, !.failure = startup.failure ] ]
        ELSE IF cb.failure # ""
        THEN [ images |-> cb.images, conn |-> rw.file,
               out    |-> [ base EXCEPT !.exit = 1, !.failure = cb.failure,
                                        !.calls = cb.calls ] ]
        ELSE IF cb.image_id = None
        THEN [ images |-> cb.images, conn |-> rw.file,
               out    |-> [ base EXCEPT !.exit = 1, !.failure = "ClickException",
                                        !.calls = cb.calls ] ]
        ELSE [ images |-> cb.images, conn |-> rw.file,
               out    |-> [ base EXCEPT !.exit = retcode, !.image_id = cb.image_id,
                               !.ports = rw.ports,
                               !.calls = cb.calls
                                  \o << Call("run", RunCmd(meta, rw.ports, cb.image_id[1]),
                                             <<retcode>>) >> ] ]

\* cli_start: the images and the connection file it leaves, and what it reports
Start(st, imgs, file, kernel_id, built, pulled, retcode) ==
    LET base    == [ NoOut EXCEPT !.op = "start", !.kernel_id = kernel_id,
                                  !.pull = StartPull, !.conn_before = file ]
        startup == CommonStartup(st, kernel_id)
        meta    == startup.kernel_meta[1]
        cb      == CommonBuild(imgs, kernel_id, meta, StartPull, built, pulled)
        rw      == Rewrite(file)
    IN  IF startup.failure # ""
        THEN [ images |-> imgs, conn |-> file,
               out    |-> [ base EXCEPT !.exit = 1, !.failure = startup.failure ] ]
        ELSE IF cb.failure # ""
        THEN [ images |-> cb.images, conn |-> file,
               out    |-> [ base EXCEPT !.exit = 1, !.failure = cb.failure,
                                        !.calls = cb.calls ] ]
        ELSE IF cb.image_id = None
        THEN [ images |-> cb.images, conn |-> file,
               out    |-> [ base EXCEPT !.exit = 1, !.failure = "ClickException",
                                        !.calls = cb.calls ] ]
        ELSE [ images |-> cb.images, conn |-> rw.file,
               out    |-> [ base EXCEPT !.exit = retcode, !.image_id = cb.image_id,
                               !.ports = rw.ports,
                               !.calls = cb.calls
                                  \o << Call("run", RunCmd(meta, rw.ports, cb.image_id[1]),
                                             <<retcode>>) >> ] ]

\* the exit codes of the container
RetCodes == { 0, 3 }

\* the kernels a command is asked for: every entry of the store and a name
\* that is nowhere
KernelNames == DOMAIN store \cup { MissingName }

\* what the runtime may answer: a build is only run for a build kernel, a
\* pull only when it is asked for
BuildOutcomes(st, kernel_id) ==
    IF CommonStartup(st, kernel_id).failure = ""
       /\ CommonStartup(st, kernel_id).kernel_meta[1].build
    THEN BOOLEAN ELSE { FALSE }
PullOutcomes(pull) == IF pull THEN BOOLEAN ELSE { FALSE }

cli_build ==
    \E kernel_id \in KernelNames :
    \E built \in BuildOutcomes(store, kernel_id), pulled \in PullOutcomes(BuildPull) :
        LET r == Build(store, images, kernel_id, built, pulled)
        IN  /\ images' = r.images
            /\ out' = r.out
            /\ prev' = store
            /\ UNCHANGED <<argv, store, conn>>

cli_start ==
    \E kernel_id \in KernelNames :
    \E built \in BuildOutcomes(store, kernel_id), pulled \in PullOutcomes(StartPull),
       retcode \in RetCodes :
        LET r == Start(store, images, conn, kernel_id, built, pulled, retcode)
        IN  /\ images' = r.images
            /\ conn' = r.conn
            /\ out' = r.out
            /\ prev' = store
            /\ UNCHANGED <<argv, store>>

\* _common_build called on an installed kernel with either value of pull
common_build ==
    \E kernel_id \in ListedNames(store), pull \in BOOLEAN :
    \E built \in BuildOutcomes(store, kernel_id), pulled \in PullOutcomes(pull) :
        LET r == CommonBuild(images, kernel_id, CommonStartup(store, kernel_id).kernel_meta[1],
                             pull, built, pulled)
        IN  /\ images' = r.images
            /\ out' = [ NoOut EXCEPT !.op = "common_build", !.kernel_id = kernel_id,
                            !.pull = pull, !.calls = r.calls, !.image_id = r.image_id,
                            !.failure = r.failure,
                            !.exit = IF r.failure = "" THEN 0 ELSE 1 ]
            /\ prev' = store
            /\ UNCHANGED <<argv, store, conn>>

(***************************************************************************)
(* Building and starting an installed kernel.                              *)
(***************************************************************************)
StartTokens == { SEP, TokX }
StartArgLists == SeqsUpTo(StartTokens, MaxStartArgs)

InitStart ==
    /\ argv \in CommandLines(StartArgLists)
    /\ store = Install(ForeignName :> DirEntry(<<ForeignSpec>>), None, <<"p", "y">>,
                       argv.build, argv.image_name, argv.arguments).store
    /\ prev = store
    /\ images \in { (ImageNameOf(argv.build, argv.image_name) :> a) : a \in InspectArrays }
    /\ conn \in ConnFiles
    /\ out = NoOut

NextStart == cli_start \/ cli_build \/ common_build

SpecStart == InitStart /\ [][NextStart]_vars

(***************************************************************************)
(* Kernel IDs from arbitrary names: make_kernel_id followed by             *)
(* validate_kernel_id, as cli_install calls them, and validate_kernel_id   *)
(* on the name as given, as install_kernelspec calls it.                   *)
(***************************************************************************)
\* characters of names: allowed ones of each kind, and some that are not
NameChars == { "m", "Z", "7", "_", ".", "-", " ", "/" }
MyKernel == <<"m", "y", " ", "k", "e", "r", "n", "e", "l">>
Names == SeqsUpTo(NameChars, MaxNameLen) \cup { MyKernel }

\* kernel_id = make_kernel_id(name); validate_kernel_id(kernel_id)
MakeKernelId ==
    LET kernel_id == make_kernel_id(argv.name)
    IN  /\ out' = [ NoOut EXCEPT !.op = "make_kernel_id",
                      !.kernel_id = kernel_id,
                      !.exit = (IF validate_kernel_id(kernel_id) THEN 0 ELSE 1),
                      !.failure = (IF validate_kernel_id(kernel_id) THEN ""
                                   ELSE "ValueError") ]
        /\ prev' = store
        /\ UNCHANGED <<argv, store, images, conn>>

\* validate_kernel_id(name)
ValidateKernelId ==
    /\ out' = [ NoOut EXCEPT !.op = "validate_kernel_id",
                  !.kernel_id = argv.name,
                  !.exit = (IF validate_kernel_id(argv.name) THEN 0 ELSE 1),
                  !.failure = (IF validate_kernel_id(argv.name) THEN ""
                               ELSE "ValueError") ]
    /\ prev' = store
    /\ UNCHANGED <<argv, store, images, conn>>

\* a command line of install, or a name for the two functions
NameArgvs ==
    { [ build |-> a.build, image_name |-> a.image_name, arguments |-> a.arguments,
        name |-> <<>> ] : a \in CommandLines(SeqsUpTo(SepTokens, 1)) }
    \cup
    { [ build |-> FALSE, image_name |-> i, arguments |-> <<>>, name |-> n ] :
        i \in ImageRefs, n \in Names }

InitIds ==
    /\ argv \in NameArgvs
    /\ store = (ForeignName :> DirEntry(<<ForeignSpec>>))
    /\ prev = store
    /\ images = NoImages
    /\ conn = NoConn
    /\ out = NoOut

NextIds == cli_install \/ MakeKernelId \/ ValidateKernelId

SpecIds == InitIds /\ [][NextIds]_vars

(***************************************************************************)
(* Two installs running at once on one store.  Each process runs           *)
(* cli_install one system call at a time: kernel_specfile.exists(), then   *)
(* read_text() of the existing file, or kernel_dir.mkdir(), the open of    *)
(* write_text (which creates or truncates the file) and its write at       *)
(* offset 0.  argv[p] is the command line of process p, out[p] what it     *)
(* has done so far and pc its position.                                    *)
(*                                                                         *)
(* The text of a kernel.json is the kernelspec it parses to, or, when it   *)
(* does not parse, [text |-> extents]: no extent for the empty file, and   *)
(* <<s, t>> for the text of s followed by what is left of the longer text  *)
(* of t behind it.                                                         *)
(***************************************************************************)
Procs == { 1, 2 }

ConcArgLists == { <<>>, <<TokX>> }

ConcArgvs ==
    { [ build |-> FALSE, image_name |-> i, arguments |-> a,
        display_name |-> d, language |-> l ] :
        i \in ImageRefs, a \in ConcArgLists, d \in DisplayNames, l \in Languages }

\* what process p computes before it looks at the store
ProcSections(p) == Partition(argv[p].arguments, argv[p].build).sections
ProcMeta(p) ==
    PodKernelMetadata(ImageNameOf(argv[p].build, argv[p].image_name), argv[p].build,
                      ProcSections(p))
ProcKernelId(p) == KernelIdOf(ProcMeta(p))
ProcKernelSpec(p) ==
    JupyterKernelSpec(ProcKernelId(p),
                      DisplayNameOf(argv[p].display_name, argv[p].build,
                                    ImageNameOf(argv[p].build, argv[p].image_name),
                                    argv[p].language),
                      argv[p].language, ProcMeta(p))

EmptyText == [ text |-> <<>> ]
Parses(content) == "text" \notin DOMAIN content
Extents(content) == IF Parses(content) THEN << content >> ELSE content.text

\* the length of kernelspec.model_dump_json(indent=True, exclude_unset=True),
\* up to the part that is the same for every kernelspec of one kernel ID
TextLen(kernelspec) == Len(kernelspec.display_name) + Len(kernelspec.language)

\* write(data) at offset 0 of a file opened without O_APPEND: what the file
\* held beyond the end of data stays
WriteAtStart(content, data) ==
    LET rest == SelectSeq(Extents(content), LAMBDA e : TextLen(e) > TextLen(data))
    IN  IF rest = <<>> THEN data ELSE [ text |-> << data >> \o rest ]

ProcStart == [ pc |-> "check" ] @@ NoOut

\* the arguments are partitioned and validated, the ID derived, and
\* kernel_specfile.exists() called
InstallCheck(p) ==
    /\ out[p].pc = "check"
    /\ LET errors == ValidationErrors(ProcSections(p))
           base   == [ out[p] EXCEPT !.op = "install", !.errors = errors,
                                     !.sections = ProcSections(p) ]
       IN  out' = [ out EXCEPT ![p] =
                IF errors # <<>>
                THEN [ base EXCEPT !.pc = "done", !.exit = 1,
                                   !.failure = "ClickException" ]
                ELSE IF ~ validate_kernel_id(ProcKernelId(p))
                THEN [ base EXCEPT !.pc = "done", !.exit = 1,
                                   !.failure = "ValueError" ]
                ELSE IF KernelSpecfileExists(store, ProcKernelId(p))
                THEN [ base EXCEPT !.pc = "read", !.kernel_id = ProcKernelId(p) ]
                ELSE [ base EXCEPT !.pc = "mkdir", !.kernel_id = ProcKernelId(p) ] ]
    /\ UNCHANGED <<argv, store, prev, images, conn>>

\* JupyterKernelSpec.model_validate_json(kernel_specfile.read_text()); sys.exit(0)
InstallRead(p) ==
    /\ out[p].pc = "read"
    /\ LET content == store[ProcKernelId(p)].spec[1]
       IN  out' = [ out EXCEPT ![p] =
                IF Parses(content)
                THEN [ out[p] EXCEPT !.pc = "done",
                           !.existing = << content.display_name, content.language >> ]
                ELSE [ out[p] EXCEPT !.pc = "done", !.exit = 1,
                                     !.failure = "ValidationError" ] ]
    /\ UNCHANGED <<argv, store, prev, images, conn>>

\* kernel_dir.mkdir(parents=True, exist_ok=True)
InstallMkdir(p) ==
    /\ out[p].pc = "mkdir"
    /\ IF Exists(store, ProcKernelId(p)) /\ ~ IsDir(store, ProcKernelId(p))
       THEN /\ out' = [ out EXCEPT ![p] = [ out[p] EXCEPT !.pc = "done", !.exit = 1,
                                                !.failure = "FileExistsError" ] ]
            /\ UNCHANGED store
       ELSE IF Exists(store, ProcKernelId(p))
       THEN /\ out' = [ out EXCEPT ![p] = [ out[p] EXCEPT !.pc = "open" ] ]
            /\ UNCHANGED store
       ELSE /\ out' = [ out EXCEPT ![p] = [ out[p] EXCEPT !.pc = "open",
                           !.fs = out[p].fs \o << <<"mkdir", ProcKernelId(p)>> >> ] ]
            /\ store' = WithEntry(store, ProcKernelId(p), DirEntry(<<>>))
    /\ UNCHANGED <<argv, prev, images, conn>>

\* kernel_specfile.write_text(...): open(mode="w") creates or truncates the file
InstallOpen(p) ==
    /\ out[p].pc = "open"
    /\ store' = WithEntry(store, ProcKernelId(p), DirEntry(<< EmptyText >>))
    /\ out' = [ out EXCEPT ![p] = [ out[p] EXCEPT !.pc = "write",
                   !.fs = out[p].fs \o << <<"open", ProcKernelId(p)>> >> ] ]
    /\ UNCHANGED <<argv, prev, images, conn>>

\* kernel_specfile.write_text(...): the text is written when the file is closed
InstallWrite(p) ==
    /\ out[p].pc = "write"
    /\ store' = WithEntry(store, ProcKernelId(p),
                    DirEntry(<< WriteAtStart(store[ProcKernelId(p)].spec[1],
                                             ProcKernelSpec(p)) >>))
    /\ out' = [ out EXCEPT ![p] = [ out[p] EXCEPT !.pc = "done",
                   !.fs = out[p].fs \o << <<"write_text", ProcKernelId(p)>> >> ] ]
    /\ UNCHANGED <<argv, prev, images, conn>>

InitConcurrent ==
    /\ argv \in [ Procs -> ConcArgvs ]
    /\ store = (ForeignName :> DirEntry(<<ForeignSpec>>))
    /\ prev = store
    /\ images = NoImages
    /\ conn = NoConn
    /\ out = [ p \in Procs |-> ProcStart ]

NextConcurrent ==
    \E p \in Procs :
        \/ InstallCheck(p)
        \/ InstallRead(p)
        \/ InstallMkdir(p)
        \/ InstallOpen(p)
        \/ InstallWrite(p)

SpecConcurrent == InitConcurrent /\ [][NextConcurrent]_vars

(***************************************************************************)
(* Vocabulary of the properties.                                           *)
(***************************************************************************)
\* s begins with p
HasPrefix(s, p) == Len(s) >= Len(p) /\ SubSeq(s, 1, Len(p)) = p

\* str(n) for n < 100
Numeral(n) ==
    LET d == <<"0", "1", "2", "3", "4", "5", "6", "7", "8", "9">>
    IN  IF n < 10 THEN << d[n + 1] >> ELSE << d[(n \div 10) + 1], d[(n % 10) + 1] >>

\* the positions of s that hold an element of S
PositionsIn(s, S) == { i \in 1..Len(s) : s[i] \in S }

\* a directory of st that holds a kernelspec with the podkernel key
Managed(st, n) ==
    /\ n \in DOMAIN st
    /\ st[n].kind = "dir"
    /\ st[n].spec # <<>>
    /\ "podkernel" \in DOMAIN st[n].spec[1].metadata

\* the KernelConfig stored in the managed directory n of st
ConfigAt(st, n) == st[n].spec[1].metadata["podkernel"]

\* the KernelConfig of the command line under study
ArgvConfig ==
    PodKernelMetadata(ImageNameOf(argv.build, argv.image_name), argv.build,
                      Partition(argv.arguments, argv.build).sections)

\* the directories of st that hold the KernelConfig c
DirsOf(st, c) == { n \in DOMAIN st : Managed(st, n) /\ ConfigAt(st, n) = c }

(***************************************************************************)
(* C1.  An install of a KernelConfig that the store already holds derives  *)
(* the ID of the directory holding it, writes nothing (the store, and so   *)
(* the stored display name and language, is as before, whatever display    *)
(* name this call was given), reports the stored display name and ends     *)
(* with status 0; the store then holds exactly one directory for that      *)
(* KernelConfig.                                                           *)
(***************************************************************************)
C1_IdempotentInstall ==
    (out.op = "install" /\ DirsOf(prev, ArgvConfig) # {})
    => /\ out.exit = 0
       /\ out.fs = <<>>
       /\ store = prev
       /\ DirsOf(store, ArgvConfig) = { out.kernel_id }
       /\ out.existing = << prev[out.kernel_id].spec[1].display_name,
                            prev[out.kernel_id].spec[1].language >>

\* a second install that was given another display name than the stored one
C1_Witness ==
    /\ out.op = "install"
    /\ DirsOf(prev, ArgvConfig) # {}
    /\ out.existing # <<>>
    /\ out.existing[1] # out.display_name
    /\ store[out.kernel_id].spec[1].display_name = out.existing[1]

(***************************************************************************)
(* C2.  The sections [build_args (only with --build), run_args, cmd_args]  *)
(* are filled in order: the tokens before the first -- are the first       *)
(* section, each -- that has a following section ends the current one and  *)
(* is dropped, the last section takes everything after the separator that  *)
(* opened it (an extra -- included), without any -- every token is in the  *)
(* first section, and build_args is empty without --build.                 *)
(***************************************************************************)
\* the k-th separator of args (0 for k = 0), or one past the end of args
\* when args has fewer than k separators or section k is the last of n
Cut(args, k, n) ==
    LET seps == PositionsIn(args, { <<"-", "-">> })
    IN  IF k = 0 THEN 0
        ELSE IF k < n /\ Cardinality(seps) >= k
        THEN CHOOSE i \in seps : Cardinality({ j \in seps : j < i }) = k - 1
        ELSE Len(args) + 1

C2_Partition ==
    out.op = "install"
    => LET args  == argv.arguments
           order == IF argv.build THEN <<"build_args", "run_args", "cmd_args">>
                    ELSE <<"run_args", "cmd_args">>
           n     == Len(order)
       IN  /\ \A k \in 1..n :
                out.sections[order[k]] =
                    SubSeq(args, Cut(args, k - 1, n) + 1, Cut(args, k, n) - 1)
           /\ (~ argv.build) => out.sections.build_args = <<>>
           /\ PositionsIn(args, { <<"-", "-">> }) = {}
              => /\ out.sections[order[1]] = args
                 /\ \A k \in 2..n : out.sections[order[k]] = <<>>

\* a build install with a separator beyond cmd_args and a token after it
C2_Witness ==
    /\ out.op = "install"
    /\ argv.build
    /\ Cardinality(PositionsIn(argv.arguments, { <<"-", "-">> })) >= 3
    /\ argv.arguments[Len(argv.arguments)] = <<"x">>
    /\ out.sections.cmd_args = << <<"-", "-">>, <<"x">> >>

(***************************************************************************)
(* C3.  The validation of install fails exactly when build_args holds a    *)
(* token starting with --iidfile, or run_args holds a token that starts    *)
(* with --rm or is one of -d, --detach, -i, --interactive, -t, --tty, -a,  *)
(* --attach: run_args [--rm], [-d] and [--rmfoo] are rejected, run_args    *)
(* [--env=FOO] is accepted, and no token of cmd_args is rejected.          *)
(***************************************************************************)
BadBuildToken(t) == HasPrefix(t, <<"-", "-", "i", "i", "d", "f", "i", "l", "e">>)

BadRunToken(t) ==
    \/ HasPrefix(t, <<"-", "-", "r", "m">>)
    \/ t \in { <<"-", "d">>, <<"-", "-", "d", "e", "t", "a", "c", "h">>,
               <<"-", "i">>,
               <<"-", "-", "i", "n", "t", "e", "r", "a", "c", "t", "i", "v", "e">>,
               <<"-", "t">>, <<"-", "-", "t", "t", "y">>,
               <<"-", "a">>, <<"-", "-", "a", "t", "t", "a", "c", "h">> }

ValidationFailed == out.exit # 0 /\ out.failure = "ClickException"

C3_Validation ==
    out.op = "install"
    => LET b == out.sections.build_args
           r == out.sections.run_args
       IN  /\ ValidationFailed
              <=> \/ \E i \in 1..Len(b) : BadBuildToken(b[i])
                  \/ \E i \in 1..Len(r) : BadRunToken(r[i])
           /\ r \in { << <<"-", "-", "r", "m">> >>, << <<"-", "d">> >>,
                      << <<"-", "-", "r", "m", "f", "o", "o">> >> }
              => ValidationFailed
           /\ (b = <<>> /\ r = << <<"-", "-", "e", "n", "v", "=", "F", "O", "O">> >>)
              => ~ ValidationFailed
           /\ (b = <<>> /\ r = <<>>) => ~ ValidationFailed

\* run_args [--rmfoo] was rejected
C3_Witness ==
    /\ out.op = "install"
    /\ out.sections.run_args = << <<"-", "-", "r", "m", "f", "o", "o">> >>
    /\ out.sections.build_args = <<>>
    /\ ValidationFailed

(***************************************************************************)
(* C4.  The validation judges the partitioned sections and is not          *)
(* fail-fast: it logs one error for build_args when any of its tokens is   *)
(* disallowed and one error for each disallowed token of run_args, in      *)
(* order, and only then aborts; an install that logged an error aborts     *)
(* with the store as it was: no directory made, no kernel.json written.    *)
(***************************************************************************)
C4_ValidationCollectsAll ==
    out.op = "install"
    => LET b    == out.sections.build_args
           r    == out.sections.run_args
           bad  == { i \in 1..Len(r) : BadRunToken(r[i]) }
           nb   == IF \E i \in 1..Len(b) : BadBuildToken(b[i]) THEN 1 ELSE 0
           errs == out.errors
       IN  /\ Len(errs) = nb + Cardinality(bad)
           /\ nb = 1 => errs[1].section = "build_args"
           /\ \A k \in (nb + 1)..Len(errs) :
                /\ errs[k].section = "run_args"
                /\ \E i \in bad : /\ errs[k].value = r[i]
                                  /\ Cardinality({ j \in bad : j < i }) = k - nb - 1
           /\ errs # <<>>
              => /\ ValidationFailed
                 /\ out.fs = <<>>
                 /\ store = prev

\* an install that aborted after reporting build_args and a token of run_args
C4_Witness ==
    /\ out.op = "install"
    /\ ValidationFailed
    /\ Len(out.errors) = 2
    /\ out.errors[1].section = "build_args"
    /\ out.errors[2].section = "run_args"
    /\ store = prev

(***************************************************************************)
(* Vocabulary of the properties of build and start.                        *)
(***************************************************************************)
\* the last command got as far as running the container
Ran == out.calls # <<>> /\ out.calls[Len(out.calls)].cmd = "run"

\* the runtime commands of the resolver, in order: all but the final run
ResolverCmds ==
    LET n == IF Ran THEN Len(out.calls) - 1 ELSE Len(out.calls)
    IN  [ i \in 1..n |-> out.calls[i].cmd ]

\* the last command resolved the image of a non-build kernel
Inspected == out.calls # <<>> /\ out.calls[1].cmd = "inspect"

\* the image ID an inspect result stands for: the Id of its first object
FirstId(result) == IF result = <<>> THEN <<>> ELSE << result[1].Id >>

(***************************************************************************)
(* C5.  As claimed: start resolves the image with pull_on_miss = true.     *)
(* For a non-build kernel whose image the first inspect does not find,     *)
(* start invokes a pull and inspects again, and fails for want of an image *)
(* only if the second inspect finds none either.                           *)
(***************************************************************************)
C5_StartPullsOnMiss ==
    (out.op = "start" /\ Inspected /\ out.calls[1].result = <<>>)
    => /\ Len(out.calls) >= 3
       /\ out.calls[2].cmd = "pull"
       /\ out.calls[3].cmd = "inspect"
       /\ out.exit # 0 => out.calls[3].result = <<>>

(***************************************************************************)
(* C6.  For a non-build kernel the resolver returns the Id of the first    *)
(* object of the inspect result when that is not empty; when it is empty   *)
(* and pull is set, it pulls exactly once, goes on whether or not the pull *)
(* succeeded, and returns what a second inspect yields; when it is empty   *)
(* and pull is not set, it returns nothing and never pulls.                *)
(***************************************************************************)
C6_Resolver ==
    (out.op \in { "common_build", "build", "start" } /\ Inspected)
    => LET first == out.calls[1].result
       IN  /\ first # <<>>
              => /\ ResolverCmds = <<"inspect">>
                 /\ out.image_id = << first[1].Id >>
           /\ (first = <<>> /\ out.pull)
              => /\ ResolverCmds = <<"inspect", "pull", "inspect">>
                 /\ out.failure \notin { "CalledProcessError" }
                 /\ out.image_id = FirstId(out.calls[3].result)
                 /\ out.calls[2].result = <<FALSE>> => out.calls[3].result = <<>>
           /\ (first = <<>> /\ ~ out.pull)
              => /\ ResolverCmds = <<"inspect">>
                 /\ out.image_id = <<>>

\* the resolver went on after a failed pull and returned nothing
C6_Witness ==
    /\ out.op = "common_build"
    /\ out.pull
    /\ ResolverCmds = <<"inspect", "pull", "inspect">>
    /\ out.calls[2].result = <<FALSE>>
    /\ out.image_id = <<>>
    /\ out.failure = ""

(***************************************************************************)
(* C7.  The command line start runs is the kernel's run_args, then --rm,   *)
(* -v <connection file>:/kernel-connection-spec.json:ro, -e <VAR>=<path>   *)
(* for the primary and for the legacy variable, one -p 127.0.0.1:<p>:<p>   *)
(* for each port found, then the image ID, then the kernel's cmd_args.     *)
(***************************************************************************)
PortMapping(port) == <<"127.0.0.1", ":">> \o Numeral(port) \o <<":">> \o Numeral(port)

C7_RunCommandLine ==
    (out.op = "start" /\ Ran)
    => LET args == out.calls[Len(out.calls)].args
           r    == ConfigAt(store, out.kernel_id).run_args
           c    == ConfigAt(store, out.kernel_id).cmd_args
           n    == Cardinality(out.ports)
           at   == Len(r) + 7
       IN  /\ Len(args) = Len(r) + 7 + 2 * n + 1 + Len(c)
           /\ SubSeq(args, 1, Len(r)) = r
           /\ SubSeq(args, Len(r) + 1, Len(r) + 7)
              = << <<"-", "-", "r", "m">>,
                   <<"-", "v">>,
                   <<"/run/kernel-1.json", ":", "/kernel-connection-spec.json", ":", "ro">>,
                   <<"-", "e">>,
                   <<"PODKERNEL_CONNECTION_FILE", "=", "/kernel-connection-spec.json">>,
                   <<"-", "e">>,
                   <<"DOCKERNEL_CONNECTION_FILE", "=", "/kernel-connection-spec.json">> >>
           /\ \A k \in 1..n : args[at + 2 * k - 1] = <<"-", "p">>
           /\ \A port \in out.ports :
                Cardinality({ k \in 1..n : args[at + 2 * k] = PortMapping(port) }) = 1
           /\ args[at + 2 * n + 1] = out.image_id[1]
           /\ SubSeq(args, at + 2 * n + 2, Len(args)) = c

\* a container run with run_args, two ports and cmd_args
C7_Witness ==
    /\ out.op = "start"
    /\ Ran
    /\ ConfigAt(store, out.kernel_id).run_args # <<>>
    /\ ConfigAt(store, out.kernel_id).cmd_args # <<>>
    /\ Cardinality(out.ports) >= 2

(***************************************************************************)
(* C8.  As claimed: rewriting the connection file forces ip to 0.0.0.0,    *)
(* leaves the value of every other field unchanged, finds as ports exactly *)
(* the values of the keys ending in _port, and applied to its own result   *)
(* gives the same file and the same ports.                                 *)
(***************************************************************************)
KeysOf(file) == { file.items[i][1] : i \in 1..Len(file.items) }
ValueOf(file, key) == file.items[CHOOSE i \in 1..Len(file.items) : file.items[i][1] = key][2]
PortKey(key) ==
    /\ Len(key) >= 5
    /\ SubSeq(key, Len(key) - 4, Len(key)) = <<"_", "p", "o", "r", "t">>

C8_Rewrite ==
    (out.op = "start" /\ Ran)
    => /\ KeysOf(conn) = KeysOf(out.conn_before) \cup { <<"i", "p">> }
       /\ ValueOf(conn, <<"i", "p">>) = <<"0.0.0.0">>
       /\ \A key \in KeysOf(out.conn_before) \ { <<"i", "p">> } :
            ValueOf(conn, key) = ValueOf(out.conn_before, key)
       /\ out.ports = { ValueOf(out.conn_before, key) :
                        key \in { k \in KeysOf(out.conn_before) : PortKey(k) } }
       /\ Rewrite(conn).file = conn
       /\ Rewrite(conn).ports = out.ports

(***************************************************************************)
(* C9.  A dry-run delete never changes the store; a confirmed delete       *)
(* removes the directory of the named kernel and nothing else; a delete    *)
(* of a name that is not a podkernel-managed kernel of the store fails     *)
(* and changes nothing, so a kernelspec without the podkernel key is       *)
(* never deleted.                                                          *)
(***************************************************************************)
C9_Delete ==
    /\ out.op = "dryrun" => store = prev
    /\ (out.op = "delete" /\ Managed(prev, out.kernel_id))
       => /\ out.exit = 0
          /\ DOMAIN store = DOMAIN prev \ { out.kernel_id }
          /\ \A n \in DOMAIN store : store[n] = prev[n]
    /\ (out.op \in { "delete", "dryrun" } /\ ~ Managed(prev, out.kernel_id))
       => /\ out.exit # 0
          /\ out.failure = "ClickException"
          /\ store = prev
    /\ out.op \in { "delete", "dryrun" }
       => \A n \in DOMAIN prev : ~ Managed(prev, n) => n \in DOMAIN store

\* a confirmed delete removed a managed kernel and left the foreign kernelspec
C9_Witness ==
    /\ out.op = "delete"
    /\ out.exit = 0
    /\ Managed(prev, out.kernel_id)
    /\ out.kernel_id \notin DOMAIN store
    /\ \E n \in DOMAIN store : store[n].spec # <<>> /\ ~ Managed(store, n)


(***************************************************************************)
(* C10.  As claimed: install_kernelspec, given a valid ID, uses the first  *)
(* of id, id_0, id_1, ... that has no existing directory.                  *)
(***************************************************************************)
\* the j-th name tried for id: id itself, then id_0, id_1, ...
Candidate(id, j) == IF j = 0 THEN id ELSE id \o <<"_">> \o Numeral(j - 1)

ValidId(id) == \A i \in 1..Len(id) : id[i] \in Letters \cup Digits \cup { "_", ".", "-" }

GenericInstalled == out.op = "install_kernelspec" /\ ValidId(out.kernel_id)

\* the chosen name is new, is the only change to the store, holds the spec
\* file, and is found within as many suffixes as the store has entries
C10_Frame ==
    /\ out.exit = 0
    /\ out.ret \notin DOMAIN prev
    /\ DOMAIN store = DOMAIN prev \cup { out.ret }
    /\ \A n \in DOMAIN prev : store[n] = prev[n]
    /\ store[out.ret].kind = "dir"
    /\ store[out.ret].spec # <<>>
    /\ out.idx <= Cardinality(DOMAIN prev)

C10_Original ==
    GenericInstalled
    => /\ C10_Frame
       /\ \E j \in 0..Cardinality(DOMAIN prev) :
            /\ out.ret = Candidate(out.kernel_id, j)
            /\ ~ (out.ret \in DOMAIN prev /\ prev[out.ret].kind = "dir")
            /\ \A i \in 0..(j - 1) :
                 /\ Candidate(out.kernel_id, i) \in DOMAIN prev
                 /\ prev[Candidate(out.kernel_id, i)].kind = "dir"

(***************************************************************************)
(* C10, amended.  install_kernelspec, given a valid ID, never writes into  *)
(* a directory that existed before the call: it uses the first of id,      *)
(* id_0, id_1, ... at which nothing exists, neither a directory nor a      *)
(* regular file; it ends within as many suffixes as the store has          *)
(* entries, creates exactly one new directory holding the spec file,       *)
(* leaves every existing entry unchanged and returns the ID it used.       *)
(***************************************************************************)
C10_GenericInstall ==
    GenericInstalled
    => /\ C10_Frame
       /\ \E j \in 0..Cardinality(DOMAIN prev) :
            /\ out.ret = Candidate(out.kernel_id, j)
            /\ \A i \in 0..(j - 1) : Candidate(out.kernel_id, i) \in DOMAIN prev

\* an install that found id and id_0 taken and used id_1
C10_Witness ==
    /\ GenericInstalled
    /\ out.kernel_id = <<"k">>
    /\ out.ret = <<"k", "_", "1">>
    /\ { <<"k">>, <<"k", "_", "0">> } \subseteq DOMAIN prev
    /\ store[out.ret].spec # <<>>

(***************************************************************************)
(* C11.  Every kernel ID an install produces consists of characters of     *)
(* [A-Za-z0-9_.-] only; make_kernel_id gives, for every name, a string of  *)
(* the same length in which each character of that set is kept and every   *)
(* other character is _, and validate_kernel_id accepts the result;        *)
(* validate_kernel_id fails exactly for the names that hold a character    *)
(* outside the set, "my kernel" among them.                                *)
(***************************************************************************)
IdAlphabet ==
    Range(<< "a", "b", "c", "d", "e", "f", "g", "h", "i", "j", "k", "l", "m",
             "n", "o", "p", "q", "r", "s", "t", "u", "v", "w", "x", "y", "z",
             "A", "B", "C", "D", "E", "F", "G", "H", "I", "J", "K", "L", "M",
             "N", "O", "P", "Q", "R", "S", "T", "U", "V", "W", "X", "Y", "Z",
             "0", "1", "2", "3", "4", "5", "6", "7", "8", "9", "_", ".", "-" >>)
OutsideAlphabet(s) == \E i \in 1..Len(s) : s[i] \notin IdAlphabet

C11_KernelIds ==
    /\ out.op = "install" =>
          /\ out.failure # "ValueError"
          /\ out.exit = 0 => out.kernel_id # <<>> /\ ~ OutsideAlphabet(out.kernel_id)
    /\ out.op = "make_kernel_id" =>
          /\ Len(out.kernel_id) = Len(argv.name)
          /\ \A i \in 1..Len(argv.name) :
                out.kernel_id[i] = IF argv.name[i] \in IdAlphabet
                                   THEN argv.name[i] ELSE "_"
          /\ out.exit = 0
    /\ out.op = "validate_kernel_id" =>
          (out.exit # 0 <=> OutsideAlphabet(argv.name))
    /\ (out.op = "validate_kernel_id" /\ argv.name = MyKernel) => out.exit # 0

\* "my kernel" was sanitised to my_kernel, which validates
C11_Witness ==
    /\ out.op = "make_kernel_id"
    /\ argv.name = MyKernel
    /\ out.kernel_id = <<"m", "y", "_", "k", "e", "r", "n", "e", "l">>
    /\ out.exit = 0

(***************************************************************************)
(* C12.  As claimed: two installs running at once are safe under every     *)
(* interleaving of their steps.  When their KernelConfigs differ, the      *)
(* kernel directory of each is at every moment what that process alone     *)
(* has made of it; when their KernelConfigs are the same, the store they   *)
(* leave is the store a single install of that configuration (the one of   *)
(* either process) leaves.                                                 *)
(***************************************************************************)
\* the entry process p alone has made of its kernel directory so far
AloneEntry(p) ==
    CASE out[p].pc \in { "check", "mkdir" } -> <<>>
      [] out[p].pc = "open"  -> << DirEntry(<<>>) >>
      [] out[p].pc = "write" -> << DirEntry(<< EmptyText >>) >>
      [] OTHER               -> << DirEntry(<< ProcKernelSpec(p) >>) >>

EntryAt(st, name) == IF name \in DOMAIN st THEN << st[name] >> ELSE <<>>

\* the store a single install of p's command line leaves
SingleInstall(p) ==
    Install(prev, argv[p].display_name, argv[p].language, argv[p].build,
            argv[p].image_name, argv[p].arguments).store

BothDone == \A p \in Procs : out[p].pc = "done"

C12_ConcurrentInstalls ==
    /\ ProcKernelId(1) # ProcKernelId(2) =>
          \A p \in Procs :
              /\ EntryAt(store, ProcKernelId(p)) = AloneEntry(p)
              /\ \A i \in 1..Len(out[p].fs) : out[p].fs[i][2] = ProcKernelId(p)
    /\ (ProcKernelId(1) = ProcKernelId(2) /\ BothDone) =>
          \E p \in Procs : store = SingleInstall(p)

(***************************************************************************)
(* C13.  start loads the kernelspec, resolves the image, rewrites the      *)
(* connection file and runs the container, in that order.  When the        *)
(* kernelspec does not load, it ends with a status other than 0, having    *)
(* called the runtime for nothing and left the connection file as it was;  *)
(* when the image is not resolved (the build failed, or the image is       *)
(* absent), it ends with a status other than 0 after the resolver's calls, *)
(* without a run and with the connection file as it was; the run is its    *)
(* last call to the runtime, made with a resolved image on a rewritten     *)
(* connection file, and its exit code is the exit code of start.           *)
(***************************************************************************)
RunCalls == { i \in 1..Len(out.calls) : out.calls[i].cmd = "run" }

C13_StartOrder ==
    out.op = "start"
    => /\ ~ Managed(store, out.kernel_id)
          => /\ out.exit # 0
             /\ out.calls = <<>>
             /\ conn = out.conn_before
       /\ (Managed(store, out.kernel_id) /\ out.image_id = <<>>)
          => /\ out.exit # 0
             /\ out.calls # <<>>
             /\ RunCalls = {}
             /\ conn = out.conn_before
       /\ RunCalls # {}
          => /\ RunCalls = { Len(out.calls) }
             /\ Len(out.calls) >= 2
             /\ Managed(store, out.kernel_id)
             /\ out.image_id # <<>>
             /\ out.image_id[1] \in Range(out.calls[Len(out.calls)].args)
             /\ conn.layout = "indent"
             /\ <<"i", "p">> \in KeysOf(conn)
             /\ ValueOf(conn, <<"i", "p">>) = <<"0.0.0.0">>
             /\ out.exit = out.calls[Len(out.calls)].result[1]
       /\ RunCalls = {}
          => /\ out.exit # 0
             /\ conn = out.conn_before

\* a build kernel whose build failed, and a container that ended with 3
C13_WitnessBuildFailed ==
    /\ out.op = "start"
    /\ Managed(store, out.kernel_id)
    /\ ConfigAt(store, out.kernel_id).build
    /\ out.failure = "CalledProcessError"
    /\ out.conn_before.layout = "jupyter"

C13_Witness ==
    /\ out.op = "start"
    /\ RunCalls # {}
    /\ out.exit = 3
    /\ out.conn_before.layout = "jupyter"

====
